---------------------------- MODULE Spec2Model ----------------------------
(***************************************************************************)
(* The expense-splitting and debt-settlement engine of splitbot            *)
(* (src/engine/index.ts): splitEqually, splitByPercentage,                 *)
(* calculateBalances, simplifyDebts and applySettlement.                   *)
(*                                                                         *)
(* The engine is stateless.  A behaviour of the model is a sequence of     *)
(* calls: from "idle" a caller invokes one function with arguments drawn   *)
(* from bounded sets, the function runs (its loops one iteration per       *)
(* step), the outcome is held in the variables, and Return leads back to   *)
(* "idle".                                                                 *)
(*                                                                         *)
(* Amounts and balances are integer cents.  A JavaScript object used as a  *)
(* Record<string, number>, and a Map, is a sequence of [key, value]        *)
(* entries with pairwise distinct keys, in insertion order.  Percentages   *)
(* are integers in units of 1/PctUnit of a percentage point.               *)
(***************************************************************************)
EXTENDS Integers, Sequences, FiniteSets, TLC

VARIABLES
  pc,               \* "idle", "simplify", "apply", "calc" or "done"
  fn,               \* the engine function of the current call, "" when idle
  thrown,           \* "none", "Error" (throw new Error) or "TypeError"
  amountCents,      \* argument of the split functions
  participants,     \* argument of splitEqually: a sequence of user ids
  shares,           \* argument of splitByPercentage: Record userId -> pct
  splits,           \* the Record returned by a split function
  balances,         \* argument of simplifyDebts: a sequence of Balance
  workingBalances,  \* simplifyDebts: the working copy
  settlements,      \* simplifyDebts: the settlements emitted so far
  applied,          \* the caller's balance list, updated by applySettlement
  nextSettlement,   \* index of the next settlement the caller applies
  balanceMap,       \* calculateBalances: the running totals
  processed,        \* calculateBalances: number of expenses folded so far
  sharesExact,      \* every expense folded so far had shares summing to amount
  calcResult,       \* the Balance list returned by calculateBalances
  expenses,         \* argument of calculateBalances when passed as one list
  settlement,       \* argument of applySettlement
  passed,           \* the Balance list as it was when the caller passed it
  groupMembers,     \* the group_members rows of the chat's group: user ids
  conversation,     \* conversationByChat.get(chatId), NoConversation if absent
  storedExpenses,   \* the rows of expenses with their expense_splits
  storedSettlements,\* the rows of settlements, as findByGroupId returns them
  proposed,         \* what getSimplifiedDebts returned last
  unrecorded,       \* positions of proposed settlements not recorded so far
  buttons,          \* the Mark paid messages in the chat: their callback data
  created           \* the number of expenses created so far

\* the variables of a call of the engine
engineVars ==
  <<pc, fn, thrown, amountCents, participants, shares, splits, balances,
    workingBalances, settlements, applied, nextSettlement, balanceMap,
    processed, sharesExact, calcResult, expenses, settlement, passed>>

\* the state of the bot and of the storage behind the services
appVars ==
  <<groupMembers, conversation, storedExpenses, storedSettlements,
    proposed, unrecorded, buttons, created>>

vars == <<engineVars, appVars>>

----------------------------------------------------------------------------
(* Bounds of the model *)

MaxParticipants == 3
MaxAmount == 4
MaxBalances == 3
MaxCents == 2
MaxExpenses == 2
MaxExpenseAmount == 2
MaxMemberRows == 2
MaxCreated == 1

\* User ids are opaque strings that the engine only compares for equality.
UserOrder == <<"alice", "bob", "charlie", "dave", "eve", "frank">>

\* the users of the expenses of one group
Users == {"alice", "bob", "charlie"}

\* amounts handed to the split functions; -1 stands for the negative amounts
AmountValues == -1 .. MaxAmount

BalanceValues == -MaxCents .. MaxCents

----------------------------------------------------------------------------
(* JavaScript numbers and containers *)

Abs(x) == IF x < 0 THEN -x ELSE x

Min(x, y) == IF x < y THEN x ELSE y

\* Math.floor(a / n) for n > 0
MathFloorDiv(a, n) == a \div n

\* a % n of JavaScript: the remainder takes the sign of the dividend
JsRemainder(a, n) == IF a >= 0 THEN a % n ELSE -((-a) % n)

\* Math.round(num / den) for den > 0: the nearest integer, a half goes up
MathRound(num, den) == (2 * num + den) \div (2 * den)

SeqsUpTo(S, n) == UNION {[1 .. k -> S] : k \in 0 .. n}

\* The lists of k user ids, one for each pattern of repetition: the first id
\* is alice and each further id is one that came before or the next new one
\* of UserOrder.  Any other list is one of these with the ids renamed.
IdListsOfLen(k) ==
  IF k = 0 THEN {<<>>}
  ELSE {[i \in 1 .. k |-> UserOrder[c[i]]] :
          c \in {d \in [1 .. k -> 1 .. k] :
                   /\ d[1] = 1
                   /\ \A i \in 2 .. k : \E j \in 1 .. i - 1 : d[i] <= d[j] + 1}}

IdLists(n) == UNION {IdListsOfLen(k) : k \in 0 .. n}

RECURSIVE SumValues(_)
SumValues(rec) ==
  IF rec = <<>> THEN 0 ELSE rec[1].value + SumValues(Tail(rec))

Keys(rec) == {rec[i].key : i \in 1 .. Len(rec)}

HasKey(rec, k) == \E i \in 1 .. Len(rec) : rec[i].key = k

\* rec[k], for a key the record holds
Get(rec, k) == rec[CHOOSE i \in 1 .. Len(rec) : rec[i].key = k].value

\* (rec[k] || 0) and (map.get(k) || 0)
GetOrZero(rec, k) == IF HasKey(rec, k) THEN Get(rec, k) ELSE 0

\* rec[k] = v and map.set(k, v): an existing key keeps its place
Set(rec, k, v) ==
  IF HasKey(rec, k)
    THEN [i \in 1 .. Len(rec) |->
            IF rec[i].key = k THEN [key |-> k, value |-> v] ELSE rec[i]]
    ELSE Append(rec, [key |-> k, value |-> v])

----------------------------------------------------------------------------
(* splitEqually *)

\* a split that drops the remainder
EqualShareNoRemainder(baseShare, remainder, index, n) == baseShare

\* a split that hands the remainder to the first participant
EqualShareRemainderFirst(baseShare, remainder, index, n) ==
  baseShare + (IF index = 1 THEN remainder ELSE 0)

\* the share of the participant at position index (1-based) of n
EqualShare(baseShare, remainder, index, n) ==
  baseShare + (IF index = n THEN remainder ELSE 0)

RECURSIVE SplitEquallyForEach(_, _, _, _, _)
SplitEquallyForEach(parts, index, baseShare, remainder, acc) ==
  IF index > Len(parts) THEN acc
  ELSE SplitEquallyForEach(parts, index + 1, baseShare, remainder,
         Set(acc, parts[index],
             EqualShare(baseShare, remainder, index, Len(parts))))

\* a split without the check of the participant list
SplitEquallyNeverRejects(parts) == FALSE

SplitEquallyRejects(parts) == Len(parts) = 0

splitEqually(amount, parts) ==
  IF SplitEquallyRejects(parts)
    THEN [thrown |-> "Error", splits |-> <<>>]
    ELSE [thrown |-> "none",
          splits |-> SplitEquallyForEach(parts, 1,
                       MathFloorDiv(amount, Len(parts)),
                       JsRemainder(amount, Len(parts)), <<>>)]

----------------------------------------------------------------------------
(* splitByPercentage *)

\* units of a percentage per percentage point: the tolerance 0.001 is one unit
PctUnit == 1000

\* a difference taken without Math.abs
PercentageOffSigned(totalPercentage) == totalPercentage - 100 * PctUnit

\* Math.abs(totalPercentage - 100) against 0.001, in exact arithmetic
PercentageOff(totalPercentage) == Abs(totalPercentage - 100 * PctUnit)

\* The outcomes of Math.abs(totalPercentage - 100) > 0.001.  The sum and the
\* difference are computed in binary floating point: a total that is exactly
\* 0.001 away from 100 comes out on either side of the tolerance, depending
\* on the percentages (33.333 + 33.333 + 33.333 and 0.001 + 100 are rejected,
\* 74.606 + 25.395 is accepted).  Any other total of percentages with three
\* decimals is decided as in exact arithmetic.
PercentageRejects(totalPercentage) ==
  IF PercentageOff(totalPercentage) > 1 THEN {TRUE}
  ELSE IF PercentageOff(totalPercentage) = 1 THEN {TRUE, FALSE}
  ELSE {FALSE}

\* a share rounded up to the next cent
PercentageShareCeiling(amount, pct) ==
  (amount * pct + 100 * PctUnit - 1) \div (100 * PctUnit)

\* a share whose half rounds down
PercentageShareHalfDown(amount, pct) ==
  (2 * amount * pct + 100 * PctUnit - 1) \div (2 * 100 * PctUnit)

\* Math.round((amountCents * shares[userId]) / 100)
PercentageShare(amount, pct) == MathRound(amount * pct, 100 * PctUnit)

\* the share of the last user id
PercentageLastShare(amount, allocated) == amount - allocated

\* a loop that rounds the share of the last user id like the others
RECURSIVE SplitByPercentageRoundAll(_, _, _, _, _)
SplitByPercentageRoundAll(amount, shr, index, allocated, acc) ==
  IF index > Len(shr) THEN acc
  ELSE SplitByPercentageRoundAll(amount, shr, index + 1,
         allocated + PercentageShare(amount, shr[index].value),
         Set(acc, shr[index].key, PercentageShare(amount, shr[index].value)))

RECURSIVE SplitByPercentageForEach(_, _, _, _, _)
SplitByPercentageForEach(amount, shr, index, allocated, acc) ==
  IF index > Len(shr) THEN acc
  ELSE IF index = Len(shr)
    THEN SplitByPercentageForEach(amount, shr, index + 1, allocated,
           Set(acc, shr[index].key, PercentageLastShare(amount, allocated)))
    ELSE SplitByPercentageForEach(amount, shr, index + 1,
           allocated + PercentageShare(amount, shr[index].value),
           Set(acc, shr[index].key, PercentageShare(amount, shr[index].value)))

\* the outcome of splitByPercentage when the check of the total came out as
\* rejected
splitByPercentage(amount, shr, rejected) ==
  IF rejected
    THEN [thrown |-> "Error", splits |-> <<>>]
    ELSE [thrown |-> "none",
          splits |-> SplitByPercentageForEach(amount, shr, 1, 0, <<>>)]

\* the percentages a caller passes
PctValues == {-50 * PctUnit, 0, 1, 25 * PctUnit, 33333, 33334, 49 * PctUnit,
              50 * PctUnit, 51 * PctUnit, 66667, 100 * PctUnit}

\* Records userId -> percentage: the keys are distinct ids, in insertion order
PercentageRecords ==
  {[i \in 1 .. Len(vs) |-> [key |-> UserOrder[i], value |-> vs[i]]] :
     vs \in SeqsUpTo(PctValues, MaxParticipants)}

----------------------------------------------------------------------------
(* splitByExactAmounts *)

\* a check that lets a difference of one cent pass
ExactAmountsRejectsBeyondOne(amount, totalShares) ==
  Abs(totalShares - amount) > 1

\* totalShares !== amountCents
ExactAmountsRejects(amount, totalShares) == totalShares # amount

\* on success the function returns the object it was passed
splitByExactAmounts(amount, shr) ==
  IF ExactAmountsRejects(amount, SumValues(shr))
    THEN [thrown |-> "Error", splits |-> <<>>]
    ELSE [thrown |-> "none", splits |-> shr]

\* Records userId -> cents: the keys are distinct ids, in insertion order
ExactRecords ==
  {[i \in 1 .. Len(vs) |-> [key |-> UserOrder[i], value |-> vs[i]]] :
     vs \in SeqsUpTo(AmountValues, MaxParticipants)}

----------------------------------------------------------------------------
(* Balance lists and Maps *)

\* the ids of a Balance list, and its net total
UserIds(bal) == {bal[i].userId : i \in 1 .. Len(bal)}

RECURSIVE SumBalances(_)
SumBalances(bal) ==
  IF bal = <<>> THEN 0 ELSE bal[1].balance + SumBalances(Tail(bal))

\* new Map(balances.map((b) => [b.userId, b.balance])): of two entries with
\* the same id the first gives the place and the last the value
RECURSIVE MapOfBalancesFrom(_, _, _)
MapOfBalancesFrom(bal, i, acc) ==
  IF i > Len(bal) THEN acc
  ELSE MapOfBalancesFrom(bal, i + 1, Set(acc, bal[i].userId, bal[i].balance))

MapOfBalances(bal) == MapOfBalancesFrom(bal, 1, <<>>)

\* a conversion that leaves out the entries with balance 0
BalancesOfMapNonZero(map) ==
  LET kept == SelectSeq(map, LAMBDA entry : entry.value # 0)
  IN  [i \in 1 .. Len(kept) |->
         [userId |-> kept[i].key, balance |-> kept[i].value]]

\* entries.map(([userId, balance]) => ({ userId, balance }))
BalancesOfMap(map) ==
  [i \in 1 .. Len(map) |-> [userId |-> map[i].key, balance |-> map[i].value]]

----------------------------------------------------------------------------
(* applySettlement *)

\* a credit that forgets what the payer had
CreditPayerOverwrite(map, stl) == Set(map, stl.from, stl.amount)

\* balanceMap.set(settlement.from, fromBalance + settlement.amount)
CreditPayer(map, stl) ==
  Set(map, stl.from, GetOrZero(map, stl.from) + stl.amount)

\* a debit with the sign of a credit
DebitPayeeAdds(map, stl) ==
  Set(map, stl.to, GetOrZero(map, stl.to) + stl.amount)

\* balanceMap.set(settlement.to, toBalance - settlement.amount)
DebitPayee(map, stl) ==
  Set(map, stl.to, GetOrZero(map, stl.to) - stl.amount)

applySettlement(bal, stl) ==
  BalancesOfMap(DebitPayee(CreditPayer(MapOfBalances(bal), stl),
                           stl))

\* new Map(balances.map((b) => [b.userId, b.balance])) holds numbers, not the
\* caller's records: the caller's list is as it was whatever the Map becomes
CallersListBesideMap(bal, map) == bal

\* the Balance lists a caller passes to applySettlement: distinct ids
DistinctBalanceLists ==
  {[i \in 1 .. Len(vals) |-> [userId |-> UserOrder[i], balance |-> vals[i]]] :
     vals \in SeqsUpTo(BalanceValues, MaxBalances)}

\* the settlements a caller passes along with a list: from and to are ids of
\* the list or one of two ids the list does not hold
SettlementsFor(bal) ==
  LET ids == {UserOrder[i] : i \in 1 .. Len(bal) + 2}
  IN  [from : ids, to : ids, amount : -1 .. MaxCents]

----------------------------------------------------------------------------
(* simplifyDebts *)

\* the thresholds 0.01 of the loop are 1 / EpsilonInverse
EpsilonInverse == 100

\* a reduce that lets the last of equal balances win
RECURSIVE ReduceMaxLastWins(_, _, _)
ReduceMaxLastWins(wb, i, max) ==
  IF i > Len(wb) THEN max
  ELSE ReduceMaxLastWins(wb, i + 1,
         IF wb[i].balance >= wb[max].balance THEN i ELSE max)

\* workingBalances.reduce((max, b) => b.balance > max.balance ? b : max):
\* the index of the first entry with the greatest balance
RECURSIVE ReduceMax(_, _, _)
ReduceMax(wb, i, max) ==
  IF i > Len(wb) THEN max
  ELSE ReduceMax(wb, i + 1, IF wb[i].balance > wb[max].balance THEN i ELSE max)

MaxCreditor(wb) == ReduceMax(wb, 2, 1)

\* workingBalances.reduce((min, b) => b.balance < min.balance ? b : min)
RECURSIVE ReduceMin(_, _, _)
ReduceMin(wb, i, min) ==
  IF i > Len(wb) THEN min
  ELSE ReduceMin(wb, i + 1, IF wb[i].balance < wb[min].balance THEN i ELSE min)

MaxDebtor(wb) == ReduceMin(wb, 2, 1)

\* a threshold of one cent instead of a hundredth of a cent
NearZeroWithinOne(x) == Abs(x) <= 1

\* Math.abs(x) < 0.01
NearZero(x) == EpsilonInverse * Abs(x) < 1

\* both the max creditor and the max debtor are (close to) zero
BothSettled(wb) ==
  /\ NearZero(wb[MaxCreditor(wb)].balance)
  /\ NearZero(wb[MaxDebtor(wb)].balance)

\* the whole balance of the max creditor, whatever the max debtor owes
SettleAmountOfCreditor(wb) == wb[MaxCreditor(wb)].balance

\* Math.min(maxCreditor.balance, -maxDebtor.balance)
SettleAmount(wb) ==
  Min(wb[MaxCreditor(wb)].balance, -wb[MaxDebtor(wb)].balance)

\* a threshold of one cent instead of a hundredth of a cent
WorthSettlingAboveOne(settleAmount) == settleAmount > 1

\* settleAmount > 0.01
WorthSettling(settleAmount) == EpsilonInverse * settleAmount > 1

\* a settlement of half of what is owed
SettleAmountCentsHalved(settleAmount) == MathRound(settleAmount, 2)

\* Math.round(settleAmount)
SettleAmountCents(settleAmount) == MathRound(settleAmount, 1)

\* a settlement of one cent, whatever is owed
EmittedSettlementOfOneCent(wb) ==
  [from |-> wb[MaxDebtor(wb)].userId,
   to |-> wb[MaxCreditor(wb)].userId,
   amount |-> 1]

\* a settlement pointing from the creditor to the debtor
EmittedSettlementReversed(wb) ==
  [from |-> wb[MaxCreditor(wb)].userId,
   to |-> wb[MaxDebtor(wb)].userId,
   amount |-> SettleAmountCents(SettleAmount(wb))]

EmittedSettlement(wb) ==
  [from |-> wb[MaxDebtor(wb)].userId,
   to |-> wb[MaxCreditor(wb)].userId,
   amount |-> SettleAmountCents(SettleAmount(wb))]

\* an update that leaves the debtor's balance as it was
UpdateBalancesCreditorOnly(wb, creditor, debtor, cents) ==
  [wb EXCEPT ![creditor].balance = @ - cents]

\* maxCreditor.balance -= cents; maxDebtor.balance += cents
UpdateBalances(wb, creditor, debtor, cents) ==
  LET paid == [wb EXCEPT ![creditor].balance = @ - cents]
  IN  [paid EXCEPT ![debtor].balance = @ + cents]

\* while (true) { ... }: the settlements pushed from the working copy wb on,
\* after those of acc; the list must not be empty
RECURSIVE SimplifyLoop(_, _)
SimplifyLoop(wb, acc) ==
  IF BothSettled(wb) THEN acc
  ELSE IF WorthSettling(SettleAmount(wb))
    THEN SimplifyLoop(UpdateBalances(wb, MaxCreditor(wb), MaxDebtor(wb),
                                     SettleAmountCents(SettleAmount(wb))),
                      Append(acc, EmittedSettlement(wb)))
    ELSE acc

\* simplifyDebts as one call
simplifyDebts(bal) ==
  IF Len(bal) = 0
    THEN [thrown |-> "TypeError", settlements |-> <<>>]
    ELSE [thrown |-> "none", settlements |-> SimplifyLoop(bal, <<>>)]

\* a working copy that is the caller's list itself
CallersListIsWorkingCopy(bal, wb) == wb

\* balances.map((b) => ({ ...b })): the working copy shares no record with
\* the caller's list, which is as it was whatever the copy becomes
CallersList(bal, wb) == bal

\* the Balance lists a caller passes
BalanceLists ==
  {[i \in 1 .. Len(ids) |-> [userId |-> ids[i], balance |-> vals[i]]] :
     <<ids, vals>> \in {p \in IdLists(MaxBalances)
                              \X SeqsUpTo(BalanceValues, MaxBalances) :
                         Len(p[1]) = Len(p[2])}}

----------------------------------------------------------------------------
(* calculateBalances *)

\* a credit that overwrites what the payer had
CreditPaidByOverwrite(map, expense) == Set(map, expense.paidBy, expense.amount)

\* balanceMap[expense.paidBy] = (balanceMap[expense.paidBy] || 0) + amount
CreditPaidBy(map, expense) ==
  Set(map, expense.paidBy, GetOrZero(map, expense.paidBy) + expense.amount)

\* a loop that debits only the first entry of expense.splits
RECURSIVE DebitSplitsFirstOnly(_, _, _)
DebitSplitsFirstOnly(map, spl, i) ==
  IF i > Len(spl) \/ i > 1 THEN map
  ELSE DebitSplitsFirstOnly(
         Set(map, spl[i].key, GetOrZero(map, spl[i].key) - spl[i].value),
         spl, i + 1)

\* for (const [userId, share] of Object.entries(expense.splits))
RECURSIVE DebitSplits(_, _, _)
DebitSplits(map, spl, i) ==
  IF i > Len(spl) THEN map
  ELSE DebitSplits(Set(map, spl[i].key, GetOrZero(map, spl[i].key) - spl[i].value),
                   spl, i + 1)

\* an iteration that starts from an empty balanceMap
FoldExpenseForgetful(map, expense) ==
  DebitSplits(CreditPaidBy(<<>>, expense), expense.splits, 1)

\* one iteration of the loop over the expenses
FoldExpense(map, expense) ==
  DebitSplits(CreditPaidBy(map, expense), expense.splits, 1)

\* the share maps of an expense of the given amount: every user of the group
\* is absent (-1) or has a share of at most the amount
SplitRecords(amount) ==
  {SelectSeq([i \in 1 .. Cardinality(Users) |->
                [key |-> UserOrder[i], value |-> f[UserOrder[i]]]],
             LAMBDA entry : entry.value >= 0) :
     f \in [Users -> -1 .. amount]}

Expenses ==
  UNION {[paidBy : Users, amount : {amount}, splits : SplitRecords(amount)] :
           amount \in 0 .. MaxExpenseAmount}

\* for (const expense of expenses)
RECURSIVE FoldExpenses(_, _, _)
FoldExpenses(map, exps, i) ==
  IF i > Len(exps) THEN map
  ELSE FoldExpenses(FoldExpense(map, exps[i]), exps, i + 1)

calculateBalances(exps) == BalancesOfMap(FoldExpenses(<<>>, exps, 1))

\* the expenses of a list passed as a whole: the shares are positive and sum
\* to the amount, or there are no shares at all
ListExpenses ==
  {e \in Expenses :
     /\ \A i \in 1 .. Len(e.splits) : e.splits[i].value > 0
     /\ e.splits = <<>> \/ SumValues(e.splits) = e.amount}

\* the lists of expenses a caller passes, up to a renaming of the user ids:
\* the payer of the first expense is alice
ExpenseLists ==
  {exps \in SeqsUpTo(ListExpenses, MaxExpenses) :
     exps = <<>> \/ exps[1].paidBy = UserOrder[1]}

----------------------------------------------------------------------------
(* ExpenseService and the storage of expenses *)

\* createExpense, from the switch on splitMethod on: the outcome of the split
\* function, or the Error of a missing shares argument.  NoShares stands for
\* an absent params.shares.
NoShares == <<[key |-> "", value |-> 0]>>

CalculateSplits(splitMethod, amount, participantIds, shr, rejected) ==
  CASE splitMethod = "equal" -> splitEqually(amount, participantIds)
    [] splitMethod = "percentage" ->
         IF shr = NoShares THEN [thrown |-> "Error", splits |-> <<>>]
         ELSE splitByPercentage(amount, shr, rejected)
    [] splitMethod = "exact" ->
         IF shr = NoShares THEN [thrown |-> "Error", splits |-> <<>>]
         ELSE splitByExactAmounts(amount, shr)
    [] OTHER -> [thrown |-> "Error", splits |-> <<>>]

\* this.expenseRepo.create({ ..., createdBy: params.paidBy }): the row of
\* expenses with its rows of expense_splits; the participants are not
\* stored, findById reads them off the splits
ExpenseRow(id, groupId, amount, paidBy, spl) ==
  [id |-> id, groupId |-> groupId, amount |-> amount, paidBy |-> paidBy,
   splits |-> spl, splitMethod |-> "equal", createdBy |-> paidBy]

\* createEqualExpense of the bot: the stored expenses after createExpense
\* with splitMethod "equal"; a failing split stores nothing
createEqualExpense(stored, id, groupId, amount, paidBy, participantIds) ==
  LET r == CalculateSplits("equal", amount, participantIds, NoShares, FALSE)
  IN  IF r.thrown # "none" THEN stored
      ELSE Append(stored, ExpenseRow(id, groupId, amount, paidBy, r.splits))

\* expenseRepo.findById
FindExpense(stored, expenseId) ==
  SelectSeq(stored, LAMBDA e : e.id = expenseId)

\* expenseRepo.delete
DeleteExpense(stored, expenseId) ==
  SelectSeq(stored, LAMBDA e : e.id # expenseId)

----------------------------------------------------------------------------
(* BalanceService and the storage of settlements *)

\* for (const settlement of settlements) balances = applySettlement(...)
RECURSIVE ApplySettlements(_, _, _)
ApplySettlements(bal, stls, i) ==
  IF i > Len(stls) THEN bal
  ELSE ApplySettlements(applySettlement(bal, stls[i]), stls, i + 1)

\* balances of the expenses alone, with the stored settlements left out
getGroupBalancesOfExpenses(exps, stls) == calculateBalances(exps)

\* getGroupBalances: the rows of both tables as findByGroupId returns them
getGroupBalances(exps, stls) ==
  ApplySettlements(calculateBalances(exps), stls, 1)

\* getSimplifiedDebts
getSimplifiedDebts(exps, stls) == simplifyDebts(getGroupBalances(exps, stls))

\* recordSettlement: settlementRepo.create({ from, to, amount: amountCents })
SettlementRow(stl) == [from |-> stl.from, to |-> stl.to, amount |-> stl.amount]

\* the row at place k of the list; findByGroupId orders by createdAt, which
\* leaves the place of a row among rows of the same second open
InsertAt(rows, k, row) ==
  SubSeq(rows, 1, k - 1) \o <<row>> \o SubSeq(rows, k, Len(rows))

\* the expenses of a group as createExpense stored them: amounts of
\* MaxExpenseAmount cents, shares that are positive and sum to the amount,
\* the first payer alice (up to a renaming of the user ids)
LedgerExpenses ==
  {e \in ListExpenses : e.splits # <<>> /\ e.amount = MaxExpenseAmount}

Ledgers ==
  {exps \in SeqsUpTo(LedgerExpenses, MaxExpenses) :
     exps # <<>> /\ exps[1].paidBy = UserOrder[1]}

----------------------------------------------------------------------------
(* The bot in one Telegram group chat *)

\* Updates are handled one at a time (bot.start() polls and awaits each
\* handler), so a handler is one step.  The chat is a group chat; its group
\* is created by the first handler that asks for the active group.

\* the users that send updates in the chat
ChatUsers == {"alice", "bob"}

\* getTelegramChatGroupId(chatId), and the id of some other group
ChatGroupId == "tgchat_1"
OtherGroupId == "tgchat_2"

NoConversation == [step |-> "none"]
NotAsked == [thrown |-> "none", settlements |-> <<>>, asked |-> 0]

\* the text of a message: a decimal number given in hundredths, words
\* without a digit, a text that starts with "/", or an empty text
Texts ==
  [kind : {"number"}, hundredths : 0 .. MaxExpenseAmount]
  \cup {[kind |-> "words", hundredths |-> 0],
        [kind |-> "slash", hundredths |-> 0],
        [kind |-> "blank", hundredths |-> 0]}

\* parseAmountToCents: null (here 0) unless the digits give a value > 0,
\* else Math.round(value * 100)
parseAmountToCents(input) ==
  IF input.kind = "number" /\ input.hundredths > 0
    THEN MathRound(input.hundredths * 100, 100)
    ELSE 0

\* ids that count every user of the chat as listed
IdsOfChat(rows) == {"alice", "bob"}

\* new Set(group.members), group.members.includes(id)
IdsOf(rows) == {rows[i] : i \in 1 .. Len(rows)}

\* seedGroupMembersFromChatAdmins: the admins that are no members yet
RECURSIVE SeedAdmins(_, _, _)
SeedAdmins(rows, admins, i) ==
  IF i > Len(UserOrder) THEN rows
  ELSE SeedAdmins(IF UserOrder[i] \in admins /\ UserOrder[i] \notin IdsOf(rows)
                    THEN Append(rows, UserOrder[i]) ELSE rows,
                  admins, i + 1)

\* ensureTelegramChatGroup: the group is created with the sender as its
\* member and seeded with the chat's admins, or the sender is added to it
\* unless already a member
EnsureTelegramChatGroup(rows, user, admins) ==
  IF rows = <<>> THEN SeedAdmins(<<user>>, admins, 1)
  ELSE IF user \in IdsOf(rows) THEN rows
  ELSE Append(rows, user)

\* /join in a group chat: groupService.addMember(group.groupId, user.id, ...)
\* inserts a row of group_members whether or not the user has one
JoinAddMember(rows, user) == Append(rows, user)

\* members.filter((member) => ids.includes(member.id))
FilterMembers(members, ids) == SelectSeq(members, LAMBDA m : m \in ids)

\* Array.from(selected) after selected.delete or selected.add
RECURSIVE SetOfArray(_, _, _)
SetOfArray(arr, i, acc) ==
  IF i > Len(arr) THEN acc
  ELSE SetOfArray(arr, i + 1,
                  IF arr[i] \in IdsOf(acc) THEN acc ELSE Append(acc, arr[i]))

ToggleSelected(selectedIds, memberId) ==
  LET selected == SetOfArray(selectedIds, 1, <<>>)
  IN  IF memberId \in IdsOf(selected)
        THEN SelectSeq(selected, LAMBDA m : m # memberId)
        ELSE Append(selected, memberId)

\* makeExpenseId(): an id no stored or deleted expense has
makeExpenseId(n) == n + 1

\* a check of the sender that lets everyone pass
IsOwnerAnyone(state, from) == TRUE

\* ctx.from.id.toString() === state.ownerUserId
IsOwner(state, from) == from = state.ownerUserId

\* a check of the expense that lets everyone delete
MayDeleteAnyone(found, groupId, from) == found # <<>>

\* expense found, of the group of the callback, created by the sender
MayDelete(found, groupId, from) ==
  /\ found # <<>>
  /\ found[1].groupId = groupId
  /\ found[1].createdBy = from

----------------------------------------------------------------------------
(* The calls *)

\* the value of settlement while no applySettlement call is under way
NoSettlement == [from |-> "", to |-> "", amount |-> 0]

Idle ==
  /\ pc = "idle" /\ fn = "" /\ thrown = "none"
  /\ amountCents = 0 /\ participants = <<>> /\ shares = <<>> /\ splits = <<>>
  /\ balances = <<>> /\ workingBalances = <<>> /\ settlements = <<>>
  /\ applied = <<>> /\ nextSettlement = 0
  /\ balanceMap = <<>> /\ processed = 0 /\ sharesExact = TRUE
  /\ calcResult = <<>> /\ expenses = <<>> /\ settlement = NoSettlement
  /\ passed = <<>>

\* the bot has started, and nothing is stored
Started ==
  /\ groupMembers = <<>>
  /\ conversation = NoConversation
  /\ storedExpenses = <<>>
  /\ created = 0
  /\ storedSettlements = <<>>
  /\ proposed = NotAsked
  /\ unrecorded = {}
  /\ buttons = <<>>

Init == Idle /\ Started

CallSplitEqually ==
  /\ pc = "idle"
  /\ \E amount \in AmountValues, parts \in IdLists(MaxParticipants) :
       LET r == splitEqually(amount, parts) IN
       /\ amountCents' = amount
       /\ participants' = parts
       /\ thrown' = r.thrown
       /\ splits' = r.splits
  /\ pc' = "done"
  /\ fn' = "splitEqually"
  /\ UNCHANGED <<shares, balances, workingBalances, settlements, applied,
                 nextSettlement, balanceMap, processed, sharesExact,
                 calcResult,
                 expenses, settlement, passed>>
  /\ UNCHANGED appVars

CallSplitByPercentage ==
  /\ pc = "idle"
  /\ \E amount \in AmountValues, shr \in PercentageRecords :
     \E rejected \in PercentageRejects(SumValues(shr)) :
       LET r == splitByPercentage(amount, shr, rejected) IN
       /\ amountCents' = amount
       /\ shares' = shr
       /\ thrown' = r.thrown
       /\ splits' = r.splits
  /\ pc' = "done"
  /\ fn' = "splitByPercentage"
  /\ UNCHANGED <<participants, balances, workingBalances, settlements,
                 applied, nextSettlement, balanceMap, processed, sharesExact,
                 calcResult,
                 expenses, settlement, passed>>
  /\ UNCHANGED appVars

CallSplitByExactAmounts ==
  /\ pc = "idle"
  /\ \E amount \in AmountValues, shr \in ExactRecords :
       LET r == splitByExactAmounts(amount, shr) IN
       /\ amountCents' = amount
       /\ shares' = shr
       /\ thrown' = r.thrown
       /\ splits' = r.splits
  /\ pc' = "done"
  /\ fn' = "splitByExactAmounts"
  /\ UNCHANGED <<participants, balances, workingBalances, settlements,
                 applied, nextSettlement, balanceMap, processed, sharesExact,
                 calcResult, expenses, settlement, passed>>
  /\ UNCHANGED appVars

CallSimplifyDebts ==
  /\ pc = "idle"
  /\ \E bal \in BalanceLists :
       /\ balances' = bal
       /\ passed' = bal
       /\ workingBalances' = bal
       /\ applied' = bal
  /\ settlements' = <<>>
  /\ nextSettlement' = 1
  /\ pc' = "simplify"
  /\ fn' = "simplifyDebts"
  /\ UNCHANGED <<thrown, amountCents, participants, shares, splits,
                 balanceMap, processed, sharesExact, calcResult,
                 expenses, settlement>>
  /\ UNCHANGED appVars

\* reduce of an empty array with no initial value
SimplifyThrow ==
  /\ pc = "simplify"
  /\ Len(workingBalances) = 0
  /\ thrown' = "TypeError"
  /\ pc' = "done"
  /\ UNCHANGED <<fn, amountCents, participants, shares, splits, balances,
                 workingBalances, settlements, applied, nextSettlement,
                 balanceMap, processed, sharesExact, calcResult,
                 expenses, settlement, passed>>
  /\ UNCHANGED appVars

\* where the caller goes on once simplifyDebts has returned
AfterSimplify == IF settlements = <<>> THEN "done" ELSE "apply"

\* the first break: the max creditor and the max debtor are both settled
SimplifySettled ==
  /\ pc = "simplify"
  /\ Len(workingBalances) > 0
  /\ BothSettled(workingBalances)
  /\ pc' = AfterSimplify
  /\ UNCHANGED <<fn, thrown, amountCents, participants, shares, splits,
                 balances, workingBalances, settlements, applied,
                 nextSettlement, balanceMap, processed, sharesExact,
                 calcResult,
                 expenses, settlement, passed>>
  /\ UNCHANGED appVars

\* an iteration that pushes a settlement and updates the two balances
SimplifyEmit ==
  /\ pc = "simplify"
  /\ Len(workingBalances) > 0
  /\ ~BothSettled(workingBalances)
  /\ WorthSettling(SettleAmount(workingBalances))
  /\ settlements' = Append(settlements, EmittedSettlement(workingBalances))
  /\ workingBalances' =
       UpdateBalances(workingBalances, MaxCreditor(workingBalances),
                      MaxDebtor(workingBalances),
                      SettleAmountCents(SettleAmount(workingBalances)))
  /\ balances' = CallersList(balances, workingBalances')
  /\ UNCHANGED <<pc, fn, thrown, amountCents, participants, shares, splits,
                 applied, nextSettlement, balanceMap, processed,
                 sharesExact, calcResult,
                 expenses, settlement, passed>>
  /\ UNCHANGED appVars

\* the second break: nothing worth settling
SimplifyStop ==
  /\ pc = "simplify"
  /\ Len(workingBalances) > 0
  /\ ~BothSettled(workingBalances)
  /\ ~WorthSettling(SettleAmount(workingBalances))
  /\ pc' = AfterSimplify
  /\ UNCHANGED <<fn, thrown, amountCents, participants, shares, splits,
                 balances, workingBalances, settlements, applied,
                 nextSettlement, balanceMap, processed, sharesExact,
                 calcResult,
                 expenses, settlement, passed>>
  /\ UNCHANGED appVars

\* the caller applies the returned settlements to its list, in order
ApplySettlement ==
  /\ pc = "apply"
  /\ applied' = applySettlement(applied, settlements[nextSettlement])
  /\ nextSettlement' = nextSettlement + 1
  /\ pc' = IF nextSettlement = Len(settlements) THEN "done" ELSE "apply"
  /\ UNCHANGED <<fn, thrown, amountCents, participants, shares, splits,
                 balances, workingBalances, settlements, balanceMap,
                 processed, sharesExact, calcResult,
                 expenses, settlement, passed>>
  /\ UNCHANGED appVars

\* applySettlement called on its own
CallApplySettlement ==
  /\ pc = "idle"
  /\ \E bal \in DistinctBalanceLists :
       \E stl \in SettlementsFor(bal) :
         /\ passed' = bal
         /\ settlement' = stl
         /\ applied' = applySettlement(bal, stl)
         /\ balances' =
              CallersListBesideMap(bal, DebitPayee(CreditPayer(MapOfBalances(bal),
                                                               stl), stl))
  /\ pc' = "done"
  /\ fn' = "applySettlement"
  /\ UNCHANGED <<thrown, amountCents, participants, shares, splits,
                 workingBalances, settlements, nextSettlement, balanceMap,
                 processed, sharesExact, calcResult, expenses>>
  /\ UNCHANGED appVars

CallCalculateBalances ==
  /\ pc = "idle"
  /\ pc' = "calc"
  /\ fn' = "calculateBalances"
  /\ UNCHANGED <<thrown, amountCents, participants, shares, splits, balances,
                 workingBalances, settlements, applied, nextSettlement,
                 balanceMap, processed, sharesExact, calcResult,
                 expenses, settlement, passed>>
  /\ UNCHANGED appVars

\* one iteration of the loop, over the next expense of the argument
CalculateExpense ==
  /\ pc = "calc"
  /\ processed < MaxExpenses
  /\ \E expense \in Expenses :
       /\ balanceMap' = FoldExpense(balanceMap, expense)
       /\ sharesExact' = (sharesExact /\ SumValues(expense.splits) = expense.amount)
  /\ processed' = processed + 1
  /\ UNCHANGED <<pc, fn, thrown, amountCents, participants, shares, splits,
                 balances, workingBalances, settlements, applied,
                 nextSettlement, calcResult,
                 expenses, settlement, passed>>
  /\ UNCHANGED appVars

\* the end of the expense list
CalculateReturn ==
  /\ pc = "calc"
  /\ calcResult' = BalancesOfMap(balanceMap)
  /\ pc' = "done"
  /\ UNCHANGED <<fn, thrown, amountCents, participants, shares, splits,
                 balances, workingBalances, settlements, applied,
                 nextSettlement, balanceMap, processed, sharesExact,
                 expenses, settlement, passed>>
  /\ UNCHANGED appVars

\* calculateBalances over a list passed as a whole
CallCalculateBalancesOf ==
  /\ pc = "idle"
  /\ \E exps \in ExpenseLists :
       /\ expenses' = exps
       /\ balanceMap' = FoldExpenses(<<>>, exps, 1)
       /\ processed' = Len(exps)
       /\ sharesExact' = \A i \in 1 .. Len(exps) :
                           SumValues(exps[i].splits) = exps[i].amount
       /\ calcResult' = BalancesOfMap(balanceMap')
  /\ pc' = "done"
  /\ fn' = "calculateBalances"
  /\ UNCHANGED <<thrown, amountCents, participants, shares, splits, balances,
                 workingBalances, settlements, applied, nextSettlement,
                 settlement, passed>>
  /\ UNCHANGED appVars

\* the chat's admins as getChatAdministrators lists them when the group is
\* created; no list is read for a group that exists
AdminLists(rows) == IF rows = <<>> THEN SUBSET ChatUsers ELSE {{}}

\* What a handler leaves behind: the conversation of the chat, the rows of
\* group_members, the stored expenses and the number of expenses created.
Outcome(conv, rows, stored, n) ==
  [conversation |-> conv, groupMembers |-> rows, storedExpenses |-> stored,
   created |-> n]

\* a handler that returned before it changed anything
Unchanged == Outcome(conversation, groupMembers, storedExpenses, created)

\* an expense stored with the conversation left in place
CreatedKeepingConversation(rows, stored) ==
  IF stored = storedExpenses
    THEN Outcome(conversation, rows, storedExpenses, created)
    ELSE Outcome(conversation, rows, stored, created + 1)

\* the outcome of a handler that called createEqualExpense and then cleared
\* the conversation; createExpense throwing leaves the conversation
Created(rows, stored) ==
  IF stored = storedExpenses
    THEN Outcome(conversation, rows, storedExpenses, created)
    ELSE Outcome(NoConversation, rows, stored, created + 1)

\* /addexpense and the "Add Expense" button
startExpenseConversation(from, admins) ==
  Outcome([step |-> "awaiting_amount", ownerUserId |-> from],
          EnsureTelegramChatGroup(groupMembers, from, admins),
          storedExpenses, created)

\* /cancel
cancel(from) ==
  Outcome(NoConversation, groupMembers, storedExpenses, created)

\* /join in the group chat
join(from, admins) ==
  Outcome(NoConversation,
          JoinAddMember(EnsureTelegramChatGroup(groupMembers, from, admins),
                        from),
          storedExpenses, created)

\* /add <amount> <description> [@user ...]: tagged are the users mentioned
add(from, admins, amountRaw, tagged) ==
  LET rows == EnsureTelegramChatGroup(groupMembers, from, admins)
      amount == parseAmountToCents(amountRaw)
      members == SeedAdmins(rows, tagged, 1)
      participantIds ==
        IF tagged = {} THEN rows
        ELSE FilterMembers(members, tagged \cup {from})
      stored ==
        createEqualExpense(storedExpenses, makeExpenseId(created),
                           ChatGroupId, amount, from, participantIds)
  IN  IF amount = 0
        THEN Outcome(NoConversation, rows, storedExpenses, created)
      ELSE IF stored = storedExpenses
        THEN Outcome(NoConversation, members, storedExpenses, created)
      ELSE Outcome(NoConversation, members, stored, created + 1)

\* a description that leads straight to the participants
StepAfterDescriptionSkipsPayer == "awaiting_split_with"

\* the step the conversation is set to once the description is taken
StepAfterDescription == "awaiting_paid_by"

\* bot.on("message:text"): a text that no command and no button takes.  The
\* description is kept as the kind of its text; nothing reads it.
messageText(from, input) ==
  IF conversation = NoConversation THEN Unchanged
  ELSE IF ~IsOwner(conversation, from) THEN Unchanged
  ELSE IF input.kind \in {"blank", "slash"} THEN Unchanged
  ELSE IF conversation.step = "awaiting_amount"
    THEN IF parseAmountToCents(input) = 0 THEN Unchanged
         ELSE Outcome([step |-> "awaiting_description",
                       ownerUserId |-> conversation.ownerUserId,
                       amountCents |-> parseAmountToCents(input)],
                      groupMembers, storedExpenses, created)
  ELSE IF conversation.step = "awaiting_description"
    THEN LET rows == EnsureTelegramChatGroup(groupMembers, from, {})
         IN  Outcome([step |-> StepAfterDescription,
                      ownerUserId |-> conversation.ownerUserId,
                      amountCents |-> conversation.amountCents,
                      description |-> input.kind,
                      members |-> rows],
                     rows, storedExpenses, created)
  ELSE Unchanged

\* callback expense:payer:<id>
expensePayer(from, payerId) ==
  IF conversation = NoConversation THEN Unchanged
  ELSE IF conversation.step # "awaiting_paid_by" THEN Unchanged
  ELSE IF ~IsOwner(conversation, from) THEN Unchanged
  ELSE IF payerId \notin IdsOf(conversation.members) THEN Unchanged
  ELSE Outcome([step |-> "awaiting_split_with",
                ownerUserId |-> conversation.ownerUserId,
                amountCents |-> conversation.amountCents,
                description |-> conversation.description,
                paidBy |-> payerId,
                members |-> conversation.members,
                selectedParticipantIds |-> conversation.members],
               groupMembers, storedExpenses, created)

\* callback expense:split_toggle:<id>
expenseSplitToggle(from, memberId) ==
  IF conversation = NoConversation THEN Unchanged
  ELSE IF conversation.step # "awaiting_split_with" THEN Unchanged
  ELSE IF ~IsOwner(conversation, from) THEN Unchanged
  ELSE IF memberId \notin IdsOf(conversation.members) THEN Unchanged
  ELSE Outcome([conversation EXCEPT !.selectedParticipantIds =
                  ToggleSelected(@, memberId)],
               groupMembers, storedExpenses, created)

\* callback expense:split_done; the chat's active group is the chat's group
expenseSplitDone(from) ==
  IF conversation = NoConversation THEN Unchanged
  ELSE IF conversation.step # "awaiting_split_with" THEN Unchanged
  ELSE IF ~IsOwner(conversation, from) THEN Unchanged
  ELSE IF Len(conversation.selectedParticipantIds) = 0 THEN Unchanged
  ELSE IF conversation.paidBy \notin IdsOf(conversation.members)
    THEN Outcome(NoConversation, groupMembers, storedExpenses, created)
  ELSE Created(groupMembers,
               createEqualExpense(
                 storedExpenses, makeExpenseId(created), ChatGroupId,
                 conversation.amountCents, conversation.paidBy,
                 FilterMembers(conversation.members,
                               IdsOf(conversation.selectedParticipantIds))))

\* callback history:delete:<groupId>:<expenseId>
historyDelete(from, groupId, expenseId) ==
  IF MayDelete(FindExpense(storedExpenses, expenseId), groupId, from)
    THEN Outcome(conversation, groupMembers,
                 DeleteExpense(storedExpenses, expenseId), created)
    ELSE Unchanged

\* the ids a delete callback can carry: those given out, and one more
ExpenseIds == 1 .. MaxCreated + 1

\* the state after a handler with the given outcome; no more than MaxCreated
\* expenses are created
Handled(outcome) ==
  \E out \in {outcome} :
    /\ out.created <= MaxCreated
    /\ conversation' = out.conversation
    /\ groupMembers' = out.groupMembers
    /\ storedExpenses' = out.storedExpenses
    /\ created' = out.created
    /\ UNCHANGED <<engineVars, storedSettlements, proposed, unrecorded,
                   buttons>>

\* a conversation is started while an expense can still be created
OnAddExpense ==
  /\ created < MaxCreated
  /\ \E from \in ChatUsers, admins \in AdminLists(groupMembers) :
       Handled(startExpenseConversation(from, admins))

OnCancel == \E from \in ChatUsers : Handled(cancel(from))

OnJoin ==
  /\ Len(groupMembers) < MaxMemberRows
  /\ \E from \in ChatUsers, admins \in AdminLists(groupMembers) :
       Handled(join(from, admins))

\* the first word is a number or not; tagging oneself adds nothing
OnAdd ==
  \E from \in ChatUsers, admins \in AdminLists(groupMembers),
     amountRaw \in {t \in Texts : t.kind \in {"number", "words"}} :
  \E tagged \in SUBSET (ChatUsers \ {from}) :
    Handled(add(from, admins, amountRaw, tagged))

OnMessageText ==
  \E from \in ChatUsers, input \in Texts : Handled(messageText(from, input))

OnExpensePayer ==
  \E from \in ChatUsers, payerId \in ChatUsers :
    Handled(expensePayer(from, payerId))

OnExpenseSplitToggle ==
  \E from \in ChatUsers, memberId \in ChatUsers :
    Handled(expenseSplitToggle(from, memberId))

OnExpenseSplitDone == \E from \in ChatUsers : Handled(expenseSplitDone(from))

OnHistoryDelete ==
  \E from \in ChatUsers, groupId \in {ChatGroupId, OtherGroupId},
     expenseId \in ExpenseIds :
    Handled(historyDelete(from, groupId, expenseId))

\* the caller is done with the outcome of a call
Return ==
  /\ pc = "done"
  /\ pc' = "idle" /\ fn' = "" /\ thrown' = "none"
  /\ amountCents' = 0 /\ participants' = <<>> /\ shares' = <<>>
  /\ splits' = <<>> /\ balances' = <<>> /\ workingBalances' = <<>>
  /\ settlements' = <<>> /\ applied' = <<>> /\ nextSettlement' = 0
  /\ balanceMap' = <<>> /\ processed' = 0 /\ sharesExact' = TRUE
  /\ calcResult' = <<>> /\ expenses' = <<>> /\ settlement' = NoSettlement
  /\ passed' = <<>>
  /\ UNCHANGED appVars

SplitNext ==
  \/ CallSplitEqually
  \/ CallSplitByPercentage
  \/ CallSplitByExactAmounts
  \/ Return

SimplifyStep ==
  \/ SimplifyThrow
  \/ SimplifySettled
  \/ SimplifyEmit
  \/ SimplifyStop

SimplifyNext ==
  \/ CallSimplifyDebts
  \/ SimplifyStep
  \/ ApplySettlement
  \/ Return

CalculateNext ==
  \/ CallCalculateBalances
  \/ CalculateExpense
  \/ CalculateReturn
  \/ Return

\* calls of the split functions
SpecSplit == Init /\ [][SplitNext]_vars

\* calls of simplifyDebts, the caller applying what it returns
SpecSimplify == Init /\ [][SimplifyNext]_vars

\* the same, where a running loop is not left waiting for ever
SpecSimplifyFair == SpecSimplify /\ WF_vars(SimplifyStep)

\* calls of calculateBalances
BotNext ==
  \/ OnAddExpense
  \/ OnCancel
  \/ OnJoin
  \/ OnAdd
  \/ OnMessageText
  \/ OnExpensePayer
  \/ OnExpenseSplitToggle
  \/ OnExpenseSplitDone
  \/ OnHistoryDelete

\* the updates of one group chat
SpecBot == Init /\ [][BotNext]_vars

\* what the calls of BalanceService leave alone
LedgerFrame ==
  UNCHANGED <<engineVars, groupMembers, conversation, created, buttons>>

\* the expenses of the group are stored
StoreExpenses ==
  /\ storedExpenses = <<>>
  /\ \E exps \in Ledgers : storedExpenses' = exps
  /\ UNCHANGED <<storedSettlements, proposed, unrecorded>>
  /\ LedgerFrame

\* getSimplifiedDebts is called: the first time, or again once every
\* settlement it returned is recorded
GetSimplifiedDebts ==
  /\ storedExpenses # <<>>
  /\ unrecorded = {}
  /\ proposed.asked < 2
  /\ \E r \in {getSimplifiedDebts(storedExpenses, storedSettlements)} :
       /\ proposed' = [thrown |-> r.thrown, settlements |-> r.settlements,
                       asked |-> proposed.asked + 1]
       /\ unrecorded' = 1 .. Len(r.settlements)
  /\ UNCHANGED <<storedExpenses, storedSettlements>>
  /\ LedgerFrame

\* recordSettlement for a returned settlement that is not recorded yet
RecordSettlement ==
  /\ \E i \in unrecorded, k \in 1 .. Len(storedSettlements) + 1 :
       /\ storedSettlements' =
            InsertAt(storedSettlements, k, SettlementRow(proposed.settlements[i]))
       /\ unrecorded' = unrecorded \ {i}
  /\ UNCHANGED <<storedExpenses, proposed>>
  /\ LedgerFrame

LedgerNext ==
  \/ StoreExpenses
  \/ GetSimplifiedDebts
  \/ RecordSettlement

SpecLedger == Init /\ [][LedgerNext]_vars

\* the settlements recordSettlement is given: any two users of the group,
\* the same one twice included, and an amount below, at or above zero
RecordableSettlements ==
  [from : Users, to : Users, amount : {-1, 0, MaxCents}]

\* one valid expense of the group is stored
StoreExpense ==
  /\ storedExpenses = <<>>
  /\ \E exps \in {l \in Ledgers : Len(l) = 1} : storedExpenses' = exps
  /\ UNCHANGED <<storedSettlements, proposed, unrecorded>>
  /\ LedgerFrame

\* recordSettlement with any settlement; the newest row comes first in
\* findByGroupId
RecordAnySettlement ==
  /\ storedExpenses # <<>>
  /\ Len(storedSettlements) < MaxExpenses
  /\ \E stl \in RecordableSettlements :
       storedSettlements' = InsertAt(storedSettlements, 1, SettlementRow(stl))
  /\ UNCHANGED <<storedExpenses, proposed, unrecorded>>
  /\ LedgerFrame

RecordedNext ==
  \/ StoreExpense
  \/ RecordAnySettlement

SpecRecorded == Init /\ [][RecordedNext]_vars

\* the most Mark paid messages kept in the chat
MaxButtons == 3

\* showSettlements: one message for each simplified debt, whose button
\* carries the callback data settle:<groupId>:<from>:<to>:<amount>
ButtonsOf(stls) == stls

\* callback settle: the settlements stored once the click is handled; the
\* newest row comes first in findByGroupId
settle(stls, button) ==
  IF button.amount <= 0 THEN stls
  ELSE InsertAt(stls, 1, SettlementRow(button))

\* editMessageText replaces the clicked message, button included
WithoutButton(msgs, k) ==
  [i \in 1 .. Len(msgs) - 1 |-> IF i < k THEN msgs[i] ELSE msgs[i + 1]]

\* what the settle displays leave alone
SettleFrame == UNCHANGED <<engineVars, groupMembers, created, unrecorded>>

\* /settle or the Settle button: showSettlements clears the conversation and
\* sends the current debts
ShowSettlements ==
  /\ storedExpenses # <<>>
  /\ conversation' = NoConversation
  /\ \E r \in {getSimplifiedDebts(storedExpenses, storedSettlements)} :
       /\ Len(buttons) + Len(r.settlements) <= MaxButtons
       /\ proposed' = [thrown |-> r.thrown, settlements |-> r.settlements,
                       asked |-> 1]
       /\ buttons' = buttons \o ButtonsOf(r.settlements)
  /\ UNCHANGED <<storedExpenses, storedSettlements>>
  /\ SettleFrame

\* a click on the Mark paid button of any message in the chat: the settlement
\* is recorded, the message is replaced and showSettlements sends the debts
\* anew
MarkPaid ==
  /\ Len(storedSettlements) < MaxExpenses
  /\ conversation' = NoConversation
  /\ \E k \in 1 .. Len(buttons) :
       /\ storedSettlements' = settle(storedSettlements, buttons[k])
       /\ \E r \in {getSimplifiedDebts(storedExpenses, storedSettlements')} :
            /\ proposed' = [thrown |-> r.thrown, settlements |-> r.settlements,
                            asked |-> 1]
            /\ buttons' = WithoutButton(buttons, k) \o ButtonsOf(r.settlements)
  /\ UNCHANGED storedExpenses
  /\ SettleFrame

SettleNext ==
  \/ StoreExpenses
  \/ ShowSettlements
  \/ MarkPaid

SpecSettle == Init /\ [][SettleNext]_vars

ApplyNext ==
  \/ CallApplySettlement
  \/ Return

SpecApply == Init /\ [][ApplyNext]_vars

\* simplifyDebts and applySettlement, the functions handed a Balance list
BalanceListNext ==
  \/ SimplifyNext
  \/ CallApplySettlement

SpecBalanceList == Init /\ [][BalanceListNext]_vars

CalculateListNext ==
  \/ CallCalculateBalancesOf
  \/ Return

SpecCalculateList == Init /\ [][CalculateListNext]_vars

SpecCalculate == Init /\ [][CalculateNext]_vars

----------------------------------------------------------------------------
(* Properties of simplifyDebts *)

DistinctUserIds(bal) ==
  \A i, j \in 1 .. Len(bal) : i # j => bal[i].userId # bal[j].userId

AllZero(bal) == \A i \in 1 .. Len(bal) : bal[i].balance = 0

\* simplifyDebts has returned and the caller has applied all it returned
SimplifiedAndApplied ==
  fn = "simplifyDebts" /\ pc = "done" /\ thrown = "none"

\* C1: for a Balance list with distinct ids whose balances sum to zero,
\* applying the settlements simplifyDebts returned, in order, with
\* applySettlement to the original list leaves every balance at exactly 0
\* (and the list keeps its participants).
C1_SettlementsClearBalances ==
  (SimplifiedAndApplied /\ DistinctUserIds(balances)
     /\ SumBalances(balances) = 0)
    => /\ AllZero(applied)
       /\ Len(applied) = Len(balances)
       /\ UserIds(applied) = UserIds(balances)

C1_Witness ==
  /\ SimplifiedAndApplied
  /\ DistinctUserIds(balances) /\ SumBalances(balances) = 0
  /\ Len(balances) = MaxBalances
  /\ Len(settlements) = 2 /\ nextSettlement = 3
  /\ AllZero(applied)

\* C2: for a list of n >= 1 Balances simplifyDebts never holds, and so
\* never returns, more than n - 1 settlements.
C2_AtMostNMinusOne ==
  (fn = "simplifyDebts" /\ Len(balances) >= 1)
    => Len(settlements) <= Len(balances) - 1

C2_Witness ==
  /\ fn = "simplifyDebts" /\ pc = "done" /\ thrown = "none"
  /\ Len(balances) = 3
  /\ Len(settlements) = Len(balances) - 1

\* a step of the loop on a non-empty list either pushes one settlement and
\* leaves the chosen creditor or the chosen debtor at exactly 0, or pushes
\* nothing and leaves the loop
LoopStepZeroesOrEnds ==
  (pc = "simplify" /\ Len(balances) >= 1)
    => \/ /\ settlements' = Append(settlements, EmittedSettlement(workingBalances))
          /\ pc' = "simplify"
          /\ \/ workingBalances'[MaxCreditor(workingBalances)].balance = 0
             \/ workingBalances'[MaxDebtor(workingBalances)].balance = 0
       \/ /\ settlements' = settlements
          /\ pc' # "simplify"
          /\ thrown' = "none"

\* C3: on every non-empty list of integer Balances, zero-sum or not, each
\* iteration of the loop that emits a settlement sets the working balance of
\* the chosen creditor or debtor to exactly 0, an iteration that emits
\* nothing ends the loop, and the loop is left after finitely many steps.
C3_SimplifyTerminates ==
  /\ [][LoopStepZeroesOrEnds]_vars
  /\ (pc = "simplify" /\ Len(balances) >= 1) ~> (pc # "simplify")

C3_Witness ==
  /\ fn = "simplifyDebts" /\ pc = "done" /\ thrown = "none"
  /\ SumBalances(balances) # 0
  /\ Len(settlements) >= 1
  /\ \E i \in 1 .. Len(workingBalances) :
       balances[i].balance # 0 /\ workingBalances[i].balance = 0

\* C4: simplifyDebts fails for no input list, and for the empty list it
\* returns the empty settlement list.
C4_SimplifyNeverFails ==
  fn = "simplifyDebts"
    => /\ thrown = "none"
       /\ (pc = "done" /\ balances = <<>>) => settlements = <<>>

----------------------------------------------------------------------------
(* Properties of calculateBalances *)

\* C5: when the shares of every expense sum to its amount, the balances
\* calculateBalances returns sum to exactly 0.
C5_BalancesSumToZero ==
  (fn = "calculateBalances" /\ pc = "done" /\ sharesExact)
    => SumBalances(calcResult) = 0

C5_Witness ==
  /\ fn = "calculateBalances" /\ pc = "done" /\ sharesExact
  /\ processed = 2
  /\ Len(calcResult) = Cardinality(Users)
  /\ \A i \in 1 .. Len(calcResult) : calcResult[i].balance # 0

----------------------------------------------------------------------------
(* Properties of splitEqually *)

Distinct(seq) == \A i, j \in 1 .. Len(seq) : i # j => seq[i] # seq[j]

Range(seq) == {seq[i] : i \in 1 .. Len(seq)}

\* splitEqually was called with an amount >= 0 and a non-empty list of
\* pairwise distinct participants
EqualSplitOfDistinct ==
  /\ fn = "splitEqually" /\ pc = "done"
  /\ amountCents >= 0
  /\ Len(participants) >= 1 /\ Distinct(participants)

\* C6: for an amount >= 0 and a non-empty list of distinct participants
\* splitEqually returns shares that sum to exactly the amount.
C6_EqualSharesSumToAmount ==
  EqualSplitOfDistinct => (thrown = "none" /\ SumValues(splits) = amountCents)

C6_Witness ==
  /\ EqualSplitOfDistinct
  /\ Len(participants) = 3 /\ amountCents = 4
  /\ SumValues(splits) = 4

\* C7: for an amount >= 0 and a non-empty list of n distinct participants
\* the keys of the returned map are exactly the participants, every
\* participant but the last gets floor(amount / n) and the last gets
\* floor(amount / n) + (amount mod n).
C7_BaseShareAndRemainderToLast ==
  EqualSplitOfDistinct =>
    LET n == Len(participants) IN
    /\ thrown = "none"
    /\ Len(splits) = n
    /\ Keys(splits) = Range(participants)
    /\ \A i \in 1 .. n - 1 :
         Get(splits, participants[i]) = amountCents \div n
    /\ Get(splits, participants[n]) = (amountCents \div n) + (amountCents % n)

C7_Witness ==
  /\ EqualSplitOfDistinct
  /\ Len(participants) = 3 /\ amountCents = 2
  /\ Get(splits, participants[1]) = 0
  /\ Get(splits, participants[3]) = 2

\* C8: with an id that occurs more than once in the participant list the
\* call is rejected or the returned shares still sum to exactly the amount.
C8_DuplicatesRejectedOrExact ==
  (fn = "splitEqually" /\ pc = "done" /\ amountCents >= 0
     /\ ~Distinct(participants))
    => (thrown # "none" \/ SumValues(splits) = amountCents)

\* C9: with an empty participant list splitEqually fails, whatever the
\* amount, and returns no share map.
C9_EmptyParticipantsRejected ==
  (fn = "splitEqually" /\ pc = "done" /\ participants = <<>>)
    => (thrown = "Error" /\ splits = <<>>)

C9_Witness ==
  /\ fn = "splitEqually" /\ pc = "done"
  /\ participants = <<>> /\ amountCents = MaxAmount
  /\ thrown = "Error"

----------------------------------------------------------------------------
(* Properties of splitByPercentage *)

\* C10: whenever splitByPercentage returns a map its values sum to exactly
\* the amount, whatever the rounding of the single shares.
C10_PercentageSharesSumToAmount ==
  (fn = "splitByPercentage" /\ pc = "done" /\ thrown = "none")
    => SumValues(splits) = amountCents

\* three shares were returned, and the last one is not its rounded percentage
C10_Witness ==
  /\ fn = "splitByPercentage" /\ pc = "done" /\ thrown = "none"
  /\ Len(splits) = 3
  /\ splits[3].value # PercentageShare(amountCents, shares[3].value)
  /\ SumValues(splits) = amountCents

\* splitByPercentage has returned or thrown
PercentageCallDone == fn = "splitByPercentage" /\ pc = "done"

Rejected == thrown = "Error" /\ splits = <<>>

----------------------------------------------------------------------------
(* Properties of splitByExactAmounts *)

\* C13: splitByExactAmounts returns a mapping equal to its input when the
\* shares sum to exactly the amount, and fails, returning nothing, for any
\* other sum.
C13_ExactAmountsPassThrough ==
  (fn = "splitByExactAmounts" /\ pc = "done") =>
    IF SumValues(shares) = amountCents
      THEN thrown = "none" /\ splits = shares
      ELSE thrown = "Error" /\ splits = <<>>

\* shares one cent short of the amount were rejected
C13_Witness ==
  /\ fn = "splitByExactAmounts" /\ pc = "done"
  /\ Len(shares) = 2 /\ SumValues(shares) = amountCents - 1
  /\ thrown = "Error"

----------------------------------------------------------------------------
(* Properties of calculateBalances over a whole list *)

\* calculateBalances has returned the balances of the list in expenses
CalculatedList ==
  fn = "calculateBalances" /\ pc = "done" /\ processed = Len(expenses)

\* what the user paid, and what the user owes, over expenses i .. Len
RECURSIVE PaidFrom(_, _)
PaidFrom(u, i) ==
  IF i > Len(expenses) THEN 0
  ELSE (IF expenses[i].paidBy = u THEN expenses[i].amount ELSE 0)
       + PaidFrom(u, i + 1)

RECURSIVE OwedFrom(_, _)
OwedFrom(u, i) ==
  IF i > Len(expenses) THEN 0
  ELSE LET spl == expenses[i].splits
           at == {j \in 1 .. Len(spl) : spl[j].key = u}
       IN  (IF at = {} THEN 0 ELSE spl[CHOOSE j \in at : TRUE].value)
           + OwedFrom(u, i + 1)

\* the payers and the keys of the shares of the expenses
Appearing ==
  {expenses[i].paidBy : i \in 1 .. Len(expenses)}
  \cup UNION {{expenses[i].splits[j].key : j \in 1 .. Len(expenses[i].splits)} :
               i \in 1 .. Len(expenses)}

\* C14: calculateBalances returns exactly one Balance for each participant
\* that is a payer or a key of some expense's shares, and no other; its value
\* is what the participant paid minus the participant's shares; an empty list
\* gives an empty result.
C14_OneBalancePerParticipant ==
  CalculatedList =>
    /\ UserIds(calcResult) = Appearing
    /\ \A i, j \in 1 .. Len(calcResult) :
         calcResult[i].userId = calcResult[j].userId => i = j
    /\ \A i \in 1 .. Len(calcResult) :
         calcResult[i].balance = PaidFrom(calcResult[i].userId, 1)
                                 - OwedFrom(calcResult[i].userId, 1)
    /\ expenses = <<>> => calcResult = <<>>

\* two expenses, the payer of the first outside its shares: the payer is
\* credited the full amount
C14_Witness ==
  /\ CalculatedList
  /\ Len(expenses) = 2
  /\ expenses[1].paidBy = "alice" /\ expenses[1].amount = 2
  /\ Keys(expenses[1].splits) = {"bob", "charlie"}
  /\ expenses[2].paidBy = "bob" /\ Keys(expenses[2].splits) = {"charlie"}
  /\ Len(calcResult) = 3
  /\ calcResult[1] = [userId |-> "alice", balance |-> 2]

\* the participant-to-balance mapping of a Balance list
BalanceMapping(bal) == {<<bal[i].userId, bal[i].balance>> : i \in 1 .. Len(bal)}

Reorderings(n) ==
  {p \in [1 .. n -> 1 .. n] : \A i, j \in 1 .. n : p[i] = p[j] => i = j}

\* C15: every permutation of the expense list gives the same
\* participant-to-balance mapping.
C15_OrderOfExpensesIrrelevant ==
  CalculatedList =>
    \A p \in Reorderings(Len(expenses)) :
      BalanceMapping(calculateBalances([i \in 1 .. Len(expenses) |->
                                          expenses[p[i]]]))
        = BalanceMapping(calcResult)

\* two different expenses with different payers: the other order builds the
\* list of balances in another order
C15_Witness ==
  /\ CalculatedList
  /\ Len(expenses) = 2
  /\ expenses[1].paidBy # expenses[2].paidBy
  /\ calculateBalances(<<expenses[2], expenses[1]>>) # calcResult
  /\ Len(calcResult) = 3

----------------------------------------------------------------------------
(* Properties of applySettlement *)

\* applySettlement has returned, in applied, the list for passed and settlement
AppliedOne == fn = "applySettlement" /\ pc = "done"

\* the balance a list holds for a user id, 0 when the id is absent
BalanceIn(bal, u) ==
  LET at == {i \in 1 .. Len(bal) : bal[i].userId = u}
  IN  IF at = {} THEN 0 ELSE bal[CHOOSE i \in at : TRUE].balance

\* the number of entries a list holds for a user id
EntriesIn(bal, u) == Cardinality({i \in 1 .. Len(bal) : bal[i].userId = u})

\* C16: for a settlement with from different from to, the returned list
\* holds for from its previous balance (0 when absent) plus the amount and
\* for to its previous balance (0 when absent) minus the amount.
C16_FromCreditedToDebited ==
  (AppliedOne /\ settlement.from # settlement.to) =>
    /\ EntriesIn(applied, settlement.from) = 1
    /\ EntriesIn(applied, settlement.to) = 1
    /\ BalanceIn(applied, settlement.from)
         = BalanceIn(passed, settlement.from) + settlement.amount
    /\ BalanceIn(applied, settlement.to)
         = BalanceIn(passed, settlement.to) - settlement.amount

\* a settlement between two users the list did not hold
C16_Witness ==
  /\ AppliedOne
  /\ passed = <<[userId |-> "alice", balance |-> 1]>>
  /\ settlement = [from |-> "bob", to |-> "charlie", amount |-> 2]
  /\ applied = <<[userId |-> "alice", balance |-> 1],
                 [userId |-> "bob", balance |-> 2],
                 [userId |-> "charlie", balance |-> -2]>>

\* C17: applySettlement leaves the balance of every participant other than
\* from and to unchanged, drops no participant of the input list, and adds
\* no participant other than from and to.
C17_OthersUntouched ==
  AppliedOne =>
    /\ \A i \in 1 .. Len(passed) :
         passed[i].userId \notin {settlement.from, settlement.to}
           => /\ EntriesIn(applied, passed[i].userId) = 1
              /\ BalanceIn(applied, passed[i].userId) = passed[i].balance
    /\ UserIds(passed) \subseteq UserIds(applied)
    /\ UserIds(applied) \subseteq
         UserIds(passed) \cup {settlement.from, settlement.to}

\* a bystander with balance 0 and a payer whose balance became 0 are both
\* in the returned list
C17_Witness ==
  /\ AppliedOne
  /\ Len(passed) = 3
  /\ passed[1].balance = -1 /\ passed[2].balance = 1 /\ passed[3].balance = 0
  /\ settlement = [from |-> "alice", to |-> "bob", amount |-> 1]
  /\ Len(applied) = 3
  /\ applied[1].balance = 0 /\ applied[3] = passed[3]

\* C18 as stated: for every balance list and every from and to, applying a
\* settlement of amount 0 succeeds and returns a balance set equal to the
\* input balance set.
C18_ZeroAmountReturnsInput ==
  (AppliedOne /\ settlement.amount = 0) =>
    /\ thrown = "none"
    /\ {<<applied[i].userId, applied[i].balance>> : i \in 1 .. Len(applied)}
         = {<<passed[i].userId, passed[i].balance>> : i \in 1 .. Len(passed)}

\* C18, amended: applying a settlement of amount 0 succeeds; the returned
\* list is the input list followed by an entry with balance 0 for from and
\* for to where the input does not hold them, so it equals the input when
\* the input holds both.
C18_ZeroAmountKeepsInputAddsAbsent ==
  (AppliedOne /\ settlement.amount = 0) =>
    /\ thrown = "none"
    /\ Len(applied) >= Len(passed)
    /\ SubSeq(applied, 1, Len(passed)) = passed
    /\ \A i \in Len(passed) + 1 .. Len(applied) :
         /\ applied[i].userId \in {settlement.from, settlement.to}
         /\ applied[i].userId \notin UserIds(passed)
         /\ applied[i].balance = 0
    /\ {settlement.from, settlement.to} \subseteq UserIds(applied)
    /\ \A i, j \in 1 .. Len(applied) :
         applied[i].userId = applied[j].userId => i = j

\* a settlement of amount 0 between two users of a list with balances
C18_Witness ==
  /\ AppliedOne /\ settlement.amount = 0
  /\ Len(passed) = 2 /\ passed[1].balance = 2 /\ passed[2].balance = -2
  /\ settlement.from = "bob" /\ settlement.to = "alice"
  /\ applied = passed

----------------------------------------------------------------------------
(* Properties of the functions handed a Balance list *)

----------------------------------------------------------------------------
(* The order of the settlements of simplifyDebts *)

\* the first position of a list that holds its greatest balance, and the
\* first that holds its least
FirstGreatest(wb) ==
  CHOOSE i \in 1 .. Len(wb) :
    /\ \A j \in 1 .. Len(wb) : wb[j].balance <= wb[i].balance
    /\ \A j \in 1 .. i - 1 : wb[j].balance < wb[i].balance

FirstLeast(wb) ==
  CHOOSE i \in 1 .. Len(wb) :
    /\ \A j \in 1 .. Len(wb) : wb[j].balance >= wb[i].balance
    /\ \A j \in 1 .. i - 1 : wb[j].balance > wb[i].balance

\* what the first k settlements pay to (negative) and take from the user
RECURSIVE NetOfSettlements(_, _)
NetOfSettlements(u, k) ==
  IF k = 0 THEN 0
  ELSE (IF settlements[k].from = u THEN settlements[k].amount ELSE 0)
       - (IF settlements[k].to = u THEN settlements[k].amount ELSE 0)
       + NetOfSettlements(u, k - 1)

\* the list passed to simplifyDebts after its first k settlements
AfterSettlements(k) ==
  [i \in 1 .. Len(passed) |->
     [userId |-> passed[i].userId,
      balance |-> passed[i].balance + NetOfSettlements(passed[i].userId, k)]]

\* a step of simplifyDebts that returns one more settlement: it goes from the
\* first least to the first greatest of the balances after the settlements
\* so far, for the smaller of what is owed to the one and by the other
NextSettlementChosen ==
  (fn = "simplifyDebts" /\ Len(settlements') = Len(settlements) + 1) =>
    LET wb == IF DistinctUserIds(passed)
                THEN AfterSettlements(Len(settlements))
                ELSE workingBalances
        last == settlements'[Len(settlements')]
    IN  /\ SubSeq(settlements', 1, Len(settlements)) = settlements
        /\ last.from = wb[FirstLeast(wb)].userId
        /\ last.to = wb[FirstGreatest(wb)].userId
        /\ last.amount = Min(wb[FirstGreatest(wb)].balance,
                             -wb[FirstLeast(wb)].balance)

\* C20: the k-th settlement returned by simplifyDebts goes from the
\* participant with the minimum working balance to the participant with the
\* maximum working balance after the first k-1 settlements have been applied,
\* each tie won by the entry that comes first in the input order, and its
\* amount is min(maximum balance, -(minimum balance)).
C20_SettlementsFromMinToMax ==
  /\ [][NextSettlementChosen]_vars
  /\ []((fn = "simplifyDebts" /\ DistinctUserIds(passed))
          => workingBalances = AfterSettlements(Len(settlements)))

\* two creditors with the same balance: the first of them was paid first
C20_Witness ==
  /\ fn = "simplifyDebts" /\ pc = "done"
  /\ passed = <<[userId |-> "alice", balance |-> 1],
                [userId |-> "bob", balance |-> 1],
                [userId |-> "charlie", balance |-> -2]>>
  /\ settlements = <<[from |-> "charlie", to |-> "alice", amount |-> 1],
                     [from |-> "charlie", to |-> "bob", amount |-> 1]>>

----------------------------------------------------------------------------
(* The settlements of simplifyDebts *)

\* simplifyDebts has left its loop and returned
SimplifyReturned ==
  fn = "simplifyDebts" /\ pc \in {"apply", "done"} /\ thrown = "none"

\* the positions of a list that hold a given user id
PositionsOf(bal, u) == {i \in 1 .. Len(bal) : bal[i].userId = u}

\* a step of simplifyDebts that returns one more settlement: the amount is a
\* positive integer, the payer is an entry with a negative working balance
\* and the payee another entry, with a positive working balance
SettlementFromDebtorToCreditor ==
  (fn = "simplifyDebts" /\ Len(settlements') = Len(settlements) + 1) =>
    LET last == settlements'[Len(settlements')] IN
    /\ last.amount \in Nat /\ last.amount > 0
    /\ \E i, j \in 1 .. Len(workingBalances) :
         /\ i # j
         /\ workingBalances[i].userId = last.from
         /\ workingBalances[i].balance < 0
         /\ workingBalances[j].userId = last.to
         /\ workingBalances[j].balance > 0
    /\ DistinctUserIds(passed) =>
         /\ last.from # last.to
         /\ \A i \in PositionsOf(workingBalances, last.from) :
              workingBalances[i].balance < 0
         /\ \A j \in PositionsOf(workingBalances, last.to) :
              workingBalances[j].balance > 0

\* C21: every settlement emitted by simplifyDebts on integer balances has a
\* positive integer amount and goes from a participant whose working balance
\* was negative at that moment to a different participant whose working
\* balance was positive at that moment.
C21_SettlementsPositiveDebtorToCreditor ==
  [][SettlementFromDebtorToCreditor]_vars

\* a second settlement was emitted, from another debtor than the first
C21_Witness ==
  /\ fn = "simplifyDebts" /\ pc = "simplify"
  /\ Len(settlements) = 2
  /\ settlements[2].from # settlements[1].from
  /\ settlements[2].amount = 1

\* the entries of a list with a negative, and with a positive, balance
Debtors(bal) == {i \in 1 .. Len(bal) : bal[i].balance < 0}
Creditors(bal) == {i \in 1 .. Len(bal) : bal[i].balance > 0}

\* C22: for a zero-sum list with exactly one debtor and exactly one creditor
\* and any number of zero balances, simplifyDebts returns exactly one
\* settlement, from the debtor to the creditor, for the full amount owed.
C22_OneDebtorOneCreditor ==
  (/\ SimplifyReturned
   /\ SumBalances(passed) = 0
   /\ Cardinality(Debtors(passed)) = 1
   /\ Cardinality(Creditors(passed)) = 1) =>
    LET d == CHOOSE i \in Debtors(passed) : TRUE
        c == CHOOSE i \in Creditors(passed) : TRUE
    IN  settlements = <<[from |-> passed[d].userId,
                         to |-> passed[c].userId,
                         amount |-> passed[c].balance]>>

\* a debt of one cent, with a settled participant between debtor and creditor
C22_Witness ==
  /\ SimplifyReturned
  /\ passed = <<[userId |-> "alice", balance |-> -1],
                [userId |-> "bob", balance |-> 0],
                [userId |-> "charlie", balance |-> 1]>>
  /\ settlements = <<[from |-> "alice", to |-> "charlie", amount |-> 1]>>

\* the caller has applied every settlement that simplifyDebts returned
AllApplied ==
  /\ fn = "simplifyDebts" /\ pc = "done" /\ thrown = "none"
  /\ nextSettlement = Len(settlements) + 1

\* C23: simplifyDebts on a non-empty list whose balances are all 0 returns
\* an empty settlement list; hence simplifyDebts on the balances obtained by
\* applying all settlements of a prior simplification (of a zero-sum list of
\* distinct participants) returns an empty list.
C23_NothingLeftToSettle ==
  /\ (SimplifyReturned /\ AllZero(passed)) => settlements = <<>>
  /\ (AllApplied /\ SumBalances(passed) = 0 /\ DistinctUserIds(passed)) =>
       simplifyDebts(applied) = [thrown |-> "none", settlements |-> <<>>]

\* two settlements were returned and applied, and nothing is left
C23_Witness ==
  /\ AllApplied
  /\ Len(settlements) = 2 /\ settlements[1].amount = 1
  /\ SumBalances(passed) = 0 /\ DistinctUserIds(passed)
  /\ applied # passed
  /\ simplifyDebts(applied).settlements = <<>>

\* the greedy algorithm with exact comparisons against zero: stop when the
\* greatest and the least balance are both 0, emit only a positive amount
RECURSIVE ExactGreedy(_, _)
ExactGreedy(wb, acc) ==
  LET c == FirstGreatest(wb)
      d == FirstLeast(wb)
      amount == Min(wb[c].balance, -wb[d].balance)
  IN  IF wb[c].balance = 0 /\ wb[d].balance = 0 THEN acc
      ELSE IF amount > 0
        THEN ExactGreedy(
               [i \in 1 .. Len(wb) |->
                  [userId |-> wb[i].userId,
                   balance |-> wb[i].balance
                               - (IF i = c THEN amount ELSE 0)
                               + (IF i = d THEN amount ELSE 0)]],
               Append(acc, [from |-> wb[d].userId, to |-> wb[c].userId,
                            amount |-> amount]))
        ELSE acc

\* C24: for integer-cent balances, simplifyDebts with its 0.01 thresholds
\* returns exactly the settlement list of the same greedy algorithm written
\* with exact comparison against zero.
C24_ThresholdsAsExactZero ==
  SimplifyReturned => settlements = ExactGreedy(passed, <<>>)

\* a list with a debt of one cent, which a threshold of a cent would drop
C24_Witness ==
  /\ SimplifyReturned
  /\ Len(passed) = 3
  /\ passed[1].balance = 1 /\ passed[2].balance = -2 /\ passed[3].balance = 1
  /\ Len(settlements) = 2
  /\ settlements = ExactGreedy(passed, <<>>)

----------------------------------------------------------------------------
(* Properties of the bot *)

\* the types of the state of the bot
----------------------------------------------------------------------------
(* The bot: deleting from the history, and the guided expense flow *)

GroupIds == {ChatGroupId, OtherGroupId}

\* the stored expenses without those of the given id
Without(stored, expenseId) ==
  SelectSeq(stored, LAMBDA e : e.id # expenseId)

\* the sender created a stored expense of that id in that group
CreatedBy(from, groupId, expenseId) ==
  \E i \in 1 .. Len(storedExpenses) :
    /\ storedExpenses[i].id = expenseId
    /\ storedExpenses[i].groupId = groupId
    /\ storedExpenses[i].createdBy = from

\* C25: the history delete button removes an expense only when the
\* requesting user is the expense's createdBy and the expense belongs to the
\* group named in the callback, and then it removes that expense and no
\* other; a request from any other user, for another group or for an unknown
\* expense leaves the stored expenses unchanged.
C25_DeleteOnlyByCreatorInGroup ==
  \A from \in ChatUsers, groupId \in GroupIds, expenseId \in ExpenseIds :
    historyDelete(from, groupId, expenseId).storedExpenses =
      IF CreatedBy(from, groupId, expenseId)
        THEN Without(storedExpenses, expenseId)
        ELSE storedExpenses

\* an expense was created and a delete request has removed it
C25_Witness == created > 0 /\ Len(storedExpenses) < created

\* what the handlers of the guided flow can leave behind in this state
FlowOutcomes ==
  {startExpenseConversation(from, admins) :
     from \in ChatUsers, admins \in AdminLists(groupMembers)}
  \cup {messageText(from, input) : from \in ChatUsers, input \in Texts}
  \cup {expensePayer(from, id) : from \in ChatUsers, id \in ChatUsers}
  \cup {expenseSplitToggle(from, id) : from \in ChatUsers, id \in ChatUsers}
  \cup {expenseSplitDone(from) : from \in ChatUsers}

\* what the other handlers can leave behind
OtherOutcomes ==
  {cancel(from) : from \in ChatUsers}
  \cup {join(from, admins) :
          from \in ChatUsers, admins \in AdminLists(groupMembers)}
  \cup UNION {{add(from, admins, amountRaw, tagged) :
                 amountRaw \in Texts, tagged \in SUBSET (ChatUsers \ {from})} :
               from \in ChatUsers, admins \in AdminLists(groupMembers)}
  \cup {historyDelete(from, groupId, expenseId) :
          from \in ChatUsers, groupId \in GroupIds, expenseId \in ExpenseIds}

\* the step that follows a step of the flow
StepAfter(step) ==
  CASE step = "awaiting_amount" -> "awaiting_description"
    [] step = "awaiting_description" -> "awaiting_paid_by"
    [] step = "awaiting_paid_by" -> "awaiting_split_with"
    [] OTHER -> "none"

\* the handler left the conversation as it was, or cleared it
LeftOrCleared(out) == out.conversation \in {conversation, NoConversation}

\* the handler left the step, moved to the next one, saved the expense at
\* the end of the last one, or cleared the conversation with or without a
\* restart from awaiting_amount
InOrder(out) ==
  \/ out.conversation.step = conversation.step
  \/ /\ conversation.step \in
          {"awaiting_amount", "awaiting_description", "awaiting_paid_by"}
     /\ out.conversation.step = StepAfter(conversation.step)
     /\ out.conversation.ownerUserId = conversation.ownerUserId
     /\ out.created = created
  \/ /\ conversation.step = "awaiting_split_with"
     /\ out.conversation = NoConversation
     /\ out.created = created + 1
  \/ /\ out.conversation = NoConversation
     /\ out.created = created
  \/ out.conversation \in [step : {"awaiting_amount"}, ownerUserId : ChatUsers]

\* C26: whatever update the chat receives, its expense conversation stays
\* at its step, advances by one step in the order awaiting_amount,
\* awaiting_description, awaiting_paid_by, awaiting_split_with, ends with
\* the expense saved, or is cleared (and possibly restarted from
\* awaiting_amount): no step is skipped and no earlier step re-entered.
C26_StepsInOrder ==
  /\ \A out \in FlowOutcomes : InOrder(out)
  /\ \A out \in OtherOutcomes : LeftOrCleared(out)

\* a conversation has reached its last step
C26_Witness ==
  /\ conversation.step = "awaiting_split_with"
  /\ \E from \in ChatUsers : expenseSplitDone(from).created = created + 1
  /\ \E from \in ChatUsers, id \in ChatUsers :
       expenseSplitToggle(from, id).conversation # conversation

\* C28: every expense persisted by ExpenseService.createExpense, for every
\* participant list the bot passes to it, has splits whose values sum to
\* exactly the expense amount.
C28_PersistedSplitsSumToAmount ==
  \A i \in 1 .. Len(storedExpenses) :
    SumValues(storedExpenses[i].splits) = storedExpenses[i].amount

\* the conversation is at its last step with a participant selected and
\* with a payer among the captured members
ReadyForDone ==
  /\ conversation.step = "awaiting_split_with"
  /\ Len(conversation.selectedParticipantIds) > 0
  /\ conversation.paidBy \in Range(conversation.members)

\* the outcome holds the stored expenses and one more
OneMoreStored(out) ==
  /\ Len(out.storedExpenses) = Len(storedExpenses) + 1
  /\ SubSeq(out.storedExpenses, 1, Len(storedExpenses)) = storedExpenses
  /\ out.created = created + 1

NothingStored(out) ==
  /\ out.storedExpenses = storedExpenses
  /\ out.created = created

\* C29: the guided flow creates an expense only through the Done callback
\* sent by the conversation's owner while the conversation is in
\* awaiting_split_with with at least one selected participant and a payer
\* that is one of the captured members; that callback creates exactly one
\* expense and leaves the chat without a conversation; every other update
\* of the flow creates none.
C29_ExpenseOnlyByOwnersDone ==
  /\ \A from \in ChatUsers :
       IF ReadyForDone /\ from = conversation.ownerUserId
         THEN /\ OneMoreStored(expenseSplitDone(from))
              /\ expenseSplitDone(from).conversation = NoConversation
         ELSE NothingStored(expenseSplitDone(from))
  /\ \A out \in FlowOutcomes \ {expenseSplitDone(from) : from \in ChatUsers} :
       NothingStored(out)

\* the owner's Done callback would now create the expense, with a
\* participant deselected before
C29_Witness ==
  /\ ReadyForDone
  /\ Len(conversation.selectedParticipantIds) < Len(conversation.members)

\* the users other than the owner of the chat's conversation
NonOwners ==
  IF conversation = NoConversation THEN {}
  ELSE ChatUsers \ {conversation.ownerUserId}

\* the outcome keeps the conversation and stores no expense
NoEffect(out) ==
  /\ out.conversation = conversation
  /\ out.storedExpenses = storedExpenses

\* texts that reach bot.on("message:text"), and the three callbacks of the
\* flow, sent by the given user
FlowInputsOf(from) ==
  {messageText(from, input) : input \in Texts}
  \cup {expensePayer(from, id) : id \in ChatUsers}
  \cup {expenseSplitToggle(from, id) : id \in ChatUsers}
  \cup {expenseSplitDone(from)}

\* text messages that are commands or menu buttons, sent by the given user
CommandsOf(from) ==
  {startExpenseConversation(from, {}), cancel(from), join(from, {})}
  \cup {add(from, {}, amountRaw, tagged) :
          amountRaw \in Texts, tagged \in SUBSET (ChatUsers \ {from})}

\* C30 as stated: text messages and the payer, toggle and Done callbacks
\* sent by a user other than the conversation's owner leave the chat's
\* conversation unchanged and create no expense.
C30_NonOwnerUpdatesChangeNothing ==
  \A from \in NonOwners :
    \A out \in FlowInputsOf(from) \cup CommandsOf(from) : NoEffect(out)

\* C30, amended: texts that are no command and no menu button, and the
\* payer, toggle and Done callbacks, sent by a user other than the
\* conversation's owner leave the conversation unchanged and create no
\* expense; /cancel and /join of such a user clear the conversation,
\* /addexpense replaces it by one the sender owns.
C30_NonOwnerFlowInputsChangeNothing ==
  \A from \in NonOwners :
    /\ \A out \in FlowInputsOf(from) : NoEffect(out)
    /\ cancel(from).conversation = NoConversation
    /\ join(from, {}).conversation = NoConversation
    /\ startExpenseConversation(from, {}).conversation =
         [step |-> "awaiting_amount", ownerUserId |-> from]

\* the owner's Done callback would create the expense, the other user's
\* does not
C30_Witness ==
  /\ ReadyForDone
  /\ expenseSplitDone(conversation.ownerUserId).created = created + 1
  /\ NonOwners # {}

----------------------------------------------------------------------------
(* BalanceService: recording what getSimplifiedDebts returned *)

\* C27: for a group whose balances sum to zero, once every settlement that
\* getSimplifiedDebts returned has been recorded exactly once with
\* recordSettlement, in any order and with no other change to the ledger,
\* getSimplifiedDebts returns an empty list.
C27_RecordedDebtsLeaveNone ==
  (/\ proposed.asked = 2
   /\ SumBalances(calculateBalances(storedExpenses)) = 0)
  => /\ proposed.thrown = "none"
     /\ proposed.settlements = <<>>

\* two settlements were returned and recorded, the later one stored ahead
\* of the earlier one, and getSimplifiedDebts was called again
C27_Witness ==
  /\ proposed.asked = 2
  /\ Len(storedSettlements) = 2
  /\ storedSettlements[1].from # storedSettlements[2].from
  /\ storedSettlements[1].amount < storedSettlements[2].amount

----------------------------------------------------------------------------
(* The guided flow: rejected input *)

\* the text gives no amount above zero
NoAmount(input) == ~(input.kind = "number" /\ input.hundredths > 0)

\* the outcome keeps the conversation, the stored expenses and their count
NothingChanged(out) ==
  /\ out.conversation = conversation
  /\ out.storedExpenses = storedExpenses
  /\ out.created = created

\* the users of the chat that are not among the captured members
NotCaptured == ChatUsers \ Range(conversation.members)

\* C31: an input that the guided flow rejects (a text that gives no
\* positive amount while the amount is awaited, a payer id or a member id
\* that is not among the captured members, Done with an empty selection,
\* free text while a button choice is awaited) leaves the conversation in
\* the same step with the same data and creates no expense.
C31_RejectedInputChangesNothing ==
  \A from \in ChatUsers :
    /\ conversation.step = "awaiting_amount" =>
         \A input \in Texts :
           NoAmount(input) => NothingChanged(messageText(from, input))
    /\ conversation.step = "awaiting_paid_by" =>
         /\ \A id \in NotCaptured : NothingChanged(expensePayer(from, id))
         /\ \A input \in Texts : NothingChanged(messageText(from, input))
    /\ conversation.step = "awaiting_split_with" =>
         /\ \A id \in NotCaptured :
              NothingChanged(expenseSplitToggle(from, id))
         /\ \A input \in Texts : NothingChanged(messageText(from, input))
         /\ conversation.selectedParticipantIds = <<>> =>
              NothingChanged(expenseSplitDone(from))

\* the last step with every participant deselected and a user of the chat
\* that is no captured member
C31_Witness ==
  /\ conversation.step = "awaiting_split_with"
  /\ conversation.selectedParticipantIds = <<>>
  /\ NotCaptured # {}

----------------------------------------------------------------------------
(* BalanceService: the sum of the group balances *)

\* the group balances with the first k stored settlements applied
BalancesAfter(k) ==
  getGroupBalances(storedExpenses, SubSeq(storedSettlements, 1, k))

\* C32: applySettlement preserves the sum of all balances for every
\* settlement (any amount, from and to present or absent, from equal to to
\* included), so the balances getGroupBalances returns for valid expenses
\* and any sequence of recorded settlements sum to 0, and so does every
\* list on the way.
C32_GroupBalancesSumToZero ==
  storedExpenses # <<>> =>
    \A k \in 0 .. Len(storedSettlements) : SumBalances(BalancesAfter(k)) = 0

\* two settlements are recorded: one from a user to that same user, one with
\* an amount below zero to a user that no expense names
C32_Witness ==
  /\ Len(storedSettlements) = 2
  /\ storedSettlements[1].from = storedSettlements[1].to
  /\ storedSettlements[1].amount > 0
  /\ storedSettlements[2].amount < 0
  /\ \A i \in 1 .. Len(BalancesAfter(0)) :
       BalancesAfter(0)[i].userId # storedSettlements[2].to

----------------------------------------------------------------------------
(* simplifyDebts: the signs of the working balances *)

\* the users named as payer, and as payee, by a list of settlements
Payers(stls) == {stls[i].from : i \in 1 .. Len(stls)}
Payees(stls) == {stls[i].to : i \in 1 .. Len(stls)}

\* C33: during simplifyDebts no working balance changes sign: an entry that
\* starts >= 0 stays >= 0 and one that starts <= 0 stays <= 0, so for a list
\* with one entry per participant no participant is from in one returned
\* settlement and to in another.
C33_NoBalanceChangesSign ==
  (fn = "simplifyDebts" /\ pc \in {"simplify", "apply", "done"}) =>
    /\ Len(workingBalances) = Len(passed)
    /\ \A i \in 1 .. Len(passed) :
         /\ workingBalances[i].userId = passed[i].userId
         /\ passed[i].balance >= 0 => workingBalances[i].balance >= 0
         /\ passed[i].balance <= 0 => workingBalances[i].balance <= 0
    /\ DistinctUserIds(passed) =>
         Payers(settlements) \cap Payees(settlements) = {}

\* simplifyDebts has returned with a creditor paid in part only
C33_Witness ==
  /\ SimplifyReturned
  /\ DistinctUserIds(passed)
  /\ settlements # <<>>
  /\ \E i \in 1 .. Len(passed) :
       /\ workingBalances[i].balance > 0
       /\ workingBalances[i].balance < passed[i].balance

----------------------------------------------------------------------------
(* simplifyDebts after the first suggested debt is paid *)

\* simplifyDebts returned at least one settlement for a zero-sum list of
\* distinct ids
SuggestedDebts ==
  /\ SimplifyReturned
  /\ DistinctUserIds(passed)
  /\ SumBalances(passed) = 0
  /\ settlements # <<>>

\* C34: for a zero-sum list of Balances with distinct ids whose
\* simplification is [s1, ..., sk] with k >= 1, simplifyDebts of
\* applySettlement(balances, s1) returns exactly [s2, ..., sk].
C34_FirstPaidLeavesTheRest ==
  SuggestedDebts =>
    simplifyDebts(applySettlement(passed, settlements[1])) =
      [thrown |-> "none", settlements |-> Tail(settlements)]

\* two debts were suggested
C34_Witness == SuggestedDebts /\ Len(settlements) = 2

----------------------------------------------------------------------------
(* splitByPercentage: the sign of the shares *)

\* splitByPercentage returned a map for an amount >= 0 and percentages that
\* are all >= 0
PercentageSplitOfNonNegative ==
  /\ PercentageCallDone /\ thrown = "none"
  /\ amountCents >= 0
  /\ \A i \in 1 .. Len(shares) : shares[i].value >= 0

----------------------------------------------------------------------------
(* The settle displays and the Mark paid clicks *)

\* the debts getSimplifiedDebts returns now
CurrentDebts ==
  LET debts == getSimplifiedDebts(storedExpenses, storedSettlements).settlements
  IN  {debts[i] : i \in 1 .. Len(debts)}

\* C36: for every sequence of settle displays and Mark paid clicks,
\* clicks on buttons of an earlier display and repeated clicks included, a
\* click records a settlement only if the clicked debt (from, to, amount) is
\* still among the group's current simplified debts; a click on an outdated
\* button leaves the recorded settlements, and with them the group
\* balances, unchanged.
C36_OutdatedClickRecordsNothing ==
  \A k \in 1 .. Len(buttons) :
    buttons[k] \notin CurrentDebts
      => /\ settle(storedSettlements, buttons[k]) = storedSettlements
         /\ getGroupBalances(storedExpenses,
                             settle(storedSettlements, buttons[k]))
              = getGroupBalances(storedExpenses, storedSettlements)

----------------------------------------------------------------------------
(* The member list of the chat's group *)

\* C37: after any sequence of bot operations (start, join, add with
\* mentions, any message in the group chat), each user appears at most once
\* in the member list of the group.
C37_EachMemberOnce ==
  \A i, j \in 1 .. Len(groupMembers) :
    groupMembers[i] = groupMembers[j] => i = j

----------------------------------------------------------------------------
(* Who may delete an expense of the guided flow *)

\* the expense Done of the guided flow stores in this state, if any
StoredByDone(from) ==
  FindExpense(expenseSplitDone(from).storedExpenses, makeExpenseId(created))

\* C38: an expense entered through the guided flow records the user who ran
\* the flow, the conversation's owner, as its createdBy, so that this user
\* is the one allowed to delete it from the history, also when another
\* member was chosen as the payer.
C38_FlowExpenseCreatedByOwner ==
  \A from \in ChatUsers :
    OneMoreStored(expenseSplitDone(from))
      => /\ StoredByDone(from)[1].createdBy = conversation.ownerUserId
         /\ MayDelete(StoredByDone(from), ChatGroupId,
                      conversation.ownerUserId)

=============================================================================
